---- MODULE Spec2Model ----
(***************************************************************************)
(* Command lifecycle engine of AIChaos (src/brain.py): the /trigger intake *)
(* pipeline, the execution queue drained by /poll, the command history     *)
(* with repeat / undo / force-undo, and the runtime preferences.           *)
(*                                                                         *)
(* Text is modelled by TLA+ strings; Len, SubSeq and \o act on them as on  *)
(* sequences of characters, so Python's str operations are computed        *)
(* character by character.                                                 *)
(***************************************************************************)
EXTENDS Integers, Sequences, FiniteSets, TLC

VARIABLES
    command_queue,      \* brain.py:540  list of code blobs, head = next to run
    command_history,    \* brain.py:546  list of command entries
    user_preferences,   \* brain.py:548  the three runtime preferences
    response,           \* what the last handler returned to its caller
    ENABLE_IMAGES,      \* brain.py:18   configuration, fixed for the process lifetime
    last_entry,         \* observation: the entry the last handler built, if it built one
    assigned_ids,       \* observation: every id a /trigger ever put in an entry
    cleared,            \* observation: the history was cleared and nothing stored since
    calls,              \* observation: the checks and the backends the last handler called
    argument,           \* the argument of a function that is run on its own, else None
    threads             \* the /trigger handlers that run step by step, each with its
                        \* position and local variables; none where handlers are atomic

vars == <<command_queue, command_history, user_preferences, response,
          ENABLE_IMAGES, last_entry, assigned_ids, cleared, calls, argument, threads>>

\* An optional value: None is Python's None (JSON null, or a key that is not
\* in a JSON body), Some(x) is the value x.
None == <<>>
Some(x) == <<x>>

(***************************************************************************)
(* Bounds of the model.                                                    *)
(***************************************************************************)
\* /trigger, /api/repeat, /api/undo and /api/force_undo are taken only while
\* the queue holds fewer than MaxQueue blobs.
MaxQueue == 2
\* /trigger with history enabled is taken only if it leaves at most
\* MaxHistory entries in the history.
MaxHistory == 2

(***************************************************************************)
(* Python str operations.                                                  *)
(***************************************************************************)
CharAt(s, i) == SubSeq(s, i, i)

\* s[i:] for a 1-based i.
Suffix(s, i) == SubSeq(s, i, Len(s))

\* s.startswith(sub, i-1)
StartsAt(s, i, sub) ==
    /\ i + Len(sub) - 1 <= Len(s)
    /\ SubSeq(s, i, i + Len(sub) - 1) = sub

\* sub in s
Contains(s, sub) == \E i \in 1..(Len(s) + 1) : StartsAt(s, i, sub)

UpperChars == "ABCDEFGHIJKLMNOPQRSTUVWXYZ"
LowerChars == "abcdefghijklmnopqrstuvwxyz"

LowerChar(c) ==
    IF \E k \in 1..Len(UpperChars) : CharAt(UpperChars, k) = c
    THEN CharAt(LowerChars, CHOOSE k \in 1..Len(UpperChars) : CharAt(UpperChars, k) = c)
    ELSE c

\* s.lower()
RECURSIVE Lower(_)
Lower(s) == IF s = "" THEN "" ELSE LowerChar(CharAt(s, 1)) \o Lower(Suffix(s, 2))

\* s.replace(old, new), old non-empty: the occurrences are replaced left to right.
RECURSIVE Replace(_, _, _)
Replace(s, old, new) ==
    IF s = "" THEN ""
    ELSE IF StartsAt(s, 1, old) THEN new \o Replace(Suffix(s, Len(old) + 1), old, new)
    ELSE CharAt(s, 1) \o Replace(Suffix(s, 2), old, new)

\* sep.join(parts)
RECURSIVE Join(_, _)
Join(parts, sep) ==
    IF parts = <<>> THEN ""
    ELSE IF Len(parts) = 1 THEN parts[1]
    ELSE parts[1] \o sep \o Join(Tail(parts), sep)

IsSpace(c) == c \in {" ", "\n", "\t", "\r"}

RECURSIVE LStrip(_)
LStrip(s) == IF s # "" /\ IsSpace(CharAt(s, 1)) THEN LStrip(Suffix(s, 2)) ELSE s

RECURSIVE RStrip(_)
RStrip(s) ==
    IF s # "" /\ IsSpace(CharAt(s, Len(s))) THEN RStrip(SubSeq(s, 1, Len(s) - 1)) ELSE s

\* s.strip()
Strip(s) == RStrip(LStrip(s))

\* The position of the first occurrence of sep in s, 0 if there is none.
Find(s, sep) ==
    IF Contains(s, sep)
    THEN CHOOSE i \in 1..Len(s) :
            /\ StartsAt(s, i, sep)
            /\ \A j \in 1..(i - 1) : ~StartsAt(s, j, sep)
    ELSE 0

\* s.split(sep), sep non-empty: the list of the parts between the separators.
RECURSIVE Split(_, _)
Split(s, sep) ==
    IF Find(s, sep) = 0 THEN <<s>>
    ELSE <<SubSeq(s, 1, Find(s, sep) - 1)>>
            \o Split(Suffix(s, Find(s, sep) + Len(sep)), sep)

(***************************************************************************)
(* Python re: the patterns of brain.py are a literal, or literals joined   *)
(* by "." (any character but a newline) and ".*" (any run of them).        *)
(***************************************************************************)
Lit(s) == [t |-> "lit", s |-> s]
Dot == [t |-> "dot", s |-> ""]
DotStar == [t |-> "dotstar", s |-> ""]

\* low[i..] starts with a match of the pieces k.. of pat; low is the text in
\* lower case and the literals are compared in lower case (re.IGNORECASE).
RECURSIVE MatchAt(_, _, _, _)
MatchAt(low, i, pat, k) ==
    IF k > Len(pat) THEN TRUE
    ELSE IF pat[k].t = "lit"
    THEN /\ StartsAt(low, i, Lower(pat[k].s))
         /\ MatchAt(low, i + Len(pat[k].s), pat, k + 1)
    ELSE IF pat[k].t = "dot"
    THEN /\ i <= Len(low)
         /\ CharAt(low, i) # "\n"
         /\ MatchAt(low, i + 1, pat, k + 1)
    ELSE \E j \in i..(Len(low) + 1) :
            /\ \A m \in i..(j - 1) : CharAt(low, m) # "\n"
            /\ MatchAt(low, j, pat, k + 1)

\* re.search(pat, text, re.IGNORECASE) is not None
re_search(pat, text) ==
    LET low == Lower(text) IN \E i \in 1..(Len(low) + 1) : MatchAt(low, i, pat, 1)

(***************************************************************************)
(* Image scanning (sanitize_and_scan).                                     *)
(***************************************************************************)
TRUSTED_DOMAINS == <<"i.imgur.com", "imgur.com">>
PLACEHOLDER_IMAGE == "https://i.imgur.com/tRaI8JO.jpg"

\* The characters the url_pattern's class accepts: letters, digits, the range
\* $-_ and the listed punctuation.
UrlChars ==
    LowerChars \o UpperChars \o "0123456789" \o "$%&'()*+,-./:;<=>?@[\\]^_!"

IsUrlChar(c) == \E k \in 1..Len(UrlChars) : CharAt(UrlChars, k) = c

\* Length of the scheme 'http[s]?://' at position i of s, 0 if it is not there.
SchemeLen(s, i) ==
    IF StartsAt(s, i, "https://") THEN 8
    ELSE IF StartsAt(s, i, "http://") THEN 7
    ELSE 0

\* The position after the longest run of url characters that starts at i.
RECURSIVE RunEnd(_, _)
RunEnd(s, i) ==
    IF i <= Len(s) /\ IsUrlChar(CharAt(s, i)) THEN RunEnd(s, i + 1) ELSE i

\* re.findall(url_pattern, s[i-1:]): the scheme and at least one url character.
RECURSIVE FindUrls(_, _)
FindUrls(s, i) ==
    IF i > Len(s) THEN <<>>
    ELSE IF SchemeLen(s, i) > 0 /\ RunEnd(s, i + SchemeLen(s, i)) > i + SchemeLen(s, i)
    THEN <<SubSeq(s, i, RunEnd(s, i + SchemeLen(s, i)) - 1)>>
            \o FindUrls(s, RunEnd(s, i + SchemeLen(s, i)))
    ELSE FindUrls(s, i + 1)

\* The position after the network location that starts at i: it ends before
\* the first "/", "?" or "#".
RECURSIVE NetlocEnd(_, _)
NetlocEnd(s, i) ==
    IF i <= Len(s) /\ CharAt(s, i) \notin {"/", "?", "#"} THEN NetlocEnd(s, i + 1) ELSE i

\* urlparse(url).netloc.lower() of a url FindUrls found
Domain(url) ==
    Lower(SubSeq(url, SchemeLen(url, 1) + 1, NetlocEnd(url, SchemeLen(url, 1) + 1) - 1))

IsTrusted(url) ==
    \E k \in 1..Len(TRUSTED_DOMAINS) : Contains(Domain(url), TRUSTED_DOMAINS[k])

\* What the download and the local models can make of a trusted url: the
\* download or a model raises, the classifier scores it suggestive or
\* explicit, the OCR text holds a blocked word, or it passes with a caption.
ScanVerdicts == {"error", "sexy", "nsfw", "badtext", "ok"}

\* The body of the loop over urls for the k-th url, from loop state st.
ScanOne(url, st, verdict) ==
    IF ~IsTrusted(url) \/ verdict \in {"error", "badtext"}
    THEN [clean |-> Replace(st.clean, url, PLACEHOLDER_IMAGE),
          ctx |-> st.ctx, blocked |-> TRUE]
    ELSE IF verdict = "sexy"
    THEN [clean |-> Replace(st.clean, url, PLACEHOLDER_IMAGE),
          ctx |-> Append(st.ctx, "User tried to show suggestive content (Blocked)."),
          blocked |-> TRUE]
    ELSE IF verdict = "nsfw"
    THEN [clean |-> Replace(st.clean, url, PLACEHOLDER_IMAGE),
          ctx |-> Append(st.ctx, "User tried to show explicit NSFW content (Blocked)."),
          blocked |-> TRUE]
    ELSE [clean |-> st.clean,
          ctx |-> Append(st.ctx, "Image shows: 'a caption'."),
          blocked |-> st.blocked]

\* The loop states the loop over urls[k..] can end in.
RECURSIVE ScanLoop(_, _, _)
ScanLoop(urls, k, st) ==
    IF k > Len(urls) THEN {st}
    ELSE UNION { ScanLoop(urls, k + 1, ScanOne(urls[k], st, v)) : v \in ScanVerdicts }

\* The results the scan of user_prompt can return:
\* (cleaned_prompt, image_context_string, was_blocked).
ScanResults(user_prompt) ==
    { [clean |-> st.clean, context |-> Join(st.ctx, " "), blocked |-> st.blocked] :
        st \in ScanLoop(FindUrls(user_prompt, 1), 1,
                        [clean |-> user_prompt, ctx |-> <<>>, blocked |-> FALSE]) }

(***************************************************************************)
(* Code generation (generate_lua).                                         *)
(***************************************************************************)
\* The markdown fence is three backquotes; TLA+ strings cannot hold a
\* backquote, so "~" stands for it in every modelled text.
FENCE_LUA == "~~~lua"
FENCE == "~~~"
UNDO_DELIMITER == "---UNDO---"

\* The text handed to the parser: fences removed, whitespace stripped.
CleanCompletion(content) == Strip(Replace(Replace(content, FENCE_LUA, ""), FENCE, ""))

\* The (execution_code, undo_code) generate_lua returns when the backend
\* answers with content.
ParseCompletion(content) ==
    IF Contains(CleanCompletion(content), UNDO_DELIMITER)
    THEN [execution_code |-> Strip(Split(CleanCompletion(content), UNDO_DELIMITER)[1]),
          undo_code |->
              IF Len(Split(CleanCompletion(content), UNDO_DELIMITER)) > 1
              THEN Strip(Split(CleanCompletion(content), UNDO_DELIMITER)[2])
              ELSE "print(\"No undo code provided\")"]
    ELSE [execution_code |-> CleanCompletion(content),
          undo_code |-> "print(\"Undo not available for this command\")"]

\* Variant: an exception of the backend call yields empty code.
generate_lua_empty_on_failure(completion) ==
    IF completion = None
    THEN [execution_code |-> "", undo_code |-> ""]
    ELSE ParseCompletion(completion[1])

\* command_history[-5:]
RecentCommands(history) ==
    SubSeq(history, IF Len(history) > 5 THEN Len(history) - 4 ELSE 1, Len(history))

\* The lines of "[RECENT COMMAND HISTORY]" that generate_lua adds to the
\* request it sends, one per command and each showing the command's
\* user_prompt (its timestamp is left out); None if it adds none.
HistoryDigest(include_history, preferences, history) ==
    IF include_history /\ preferences.include_history_in_ai /\ history # <<>>
    THEN Some([k \in 1..Len(RecentCommands(history)) |->
                RecentCommands(history)[k].user_prompt])
    ELSE None

\* What generate_lua returns for a backend outcome: None is an exception of
\* the backend call, Some(content) its answer.
generate_lua(completion) ==
    IF completion = None
    THEN [execution_code |-> "print(\"AI Generation Failed\")",
          undo_code |-> "print(\"Undo not available\")"]
    ELSE ParseCompletion(completion[1])

(***************************************************************************)
(* Safety lists of /trigger.                                               *)
(***************************************************************************)
changelevel_keywords ==
    <<"changelevel", "change level", "next map", "load map", "switch map",
      "new map", "RunConsoleCommand.*map">>

\* Variant: the request is not lower-cased before the comparison.
IsChangelevelRequestCaseSensitive(user_request) ==
    \E k \in 1..Len(changelevel_keywords) :
        Contains(user_request, Lower(changelevel_keywords[k]))

\* any(keyword.lower() in user_request.lower() for keyword in changelevel_keywords)
IsChangelevelRequest(user_request) ==
    LET low == Lower(user_request)
    IN \E k \in 1..Len(changelevel_keywords) :
          Contains(low, Lower(changelevel_keywords[k]))

dangerous_patterns ==
    << <<Lit("changelevel")>>,
       <<Lit("RunConsoleCommand"), DotStar, Lit("\"map\"")>>,
       <<Lit("RunConsoleCommand"), DotStar, Lit("'map'")>>,
       <<Lit("game"), Dot, Lit("ConsoleCommand"), DotStar, Lit("map")>> >>

\* Variant: only the console-command patterns are searched, not 'changelevel'.
IsDangerousCodeConsoleOnly(execution_code) ==
    \E k \in 2..Len(dangerous_patterns) : re_search(dangerous_patterns[k], execution_code)

\* any(re.search(pattern, execution_code, re.IGNORECASE) for pattern in dangerous_patterns)
IsDangerousCode(execution_code) ==
    \E k \in 1..Len(dangerous_patterns) : re_search(dangerous_patterns[k], execution_code)

(***************************************************************************)
(* The requests and backend answers the model draws from, and the values   *)
(* of the text functions on them (each computed once).                     *)
(***************************************************************************)
PromptTexts ==
    {"", "make everyone tiny", "Load Map d1_town",
     "wear https://i.imgur.com/a.png",
     "mix https://imgur.com/a.png and http://x.io/b.png"}

CompletionTexts ==
    {"SetTiny()\n---UNDO---\nSetNormal()",
     "RunConsoleCommand(\"changelevel\", \"d1_town\")",
     "SetTiny()\n---UNDO---\nRunConsoleCommand(\"changelevel\", \"d1_town\")"}

ForceUndoTexts ==
    {"~~~lua\nResetAll()\n~~~",
     "RunConsoleCommand(\"changelevel\", \"d1_town\")"}

IsChangelevelRequestOf == [text \in PromptTexts |-> IsChangelevelRequest(text)]

ScanResultsOf == [text \in PromptTexts |-> ScanResults(text)]

generate_lua_of == [completion \in {None} \cup {Some(c) : c \in CompletionTexts} |->
                        generate_lua(completion)]

IsDangerousCodeOf ==
    [code \in {generate_lua_of[c].execution_code : c \in DOMAIN generate_lua_of} |->
        IsDangerousCode(code)]

CleanCompletionOf == [text \in ForceUndoTexts |-> CleanCompletion(text)]

\* The results sanitize_and_scan(user_prompt) can return.
sanitize_and_scan(user_prompt) ==
    IF ~ENABLE_IMAGES
    THEN {[clean |-> user_prompt, context |-> "", blocked |-> FALSE]}
    ELSE ScanResultsOf[user_prompt]

(***************************************************************************)
(* State after module load (brain.py:540-552).                             *)
(***************************************************************************)
Init ==
    /\ command_queue = <<>>
    /\ command_history = <<>>
    /\ user_preferences = [include_history_in_ai |-> TRUE,
                           history_enabled |-> TRUE,
                           max_history_length |-> 50]
    /\ ENABLE_IMAGES = FALSE
    /\ response = [route |-> "none"]
    /\ last_entry = None
    /\ assigned_ids = {}
    /\ cleared = FALSE
    /\ calls = {}
    /\ argument = None
    /\ threads = <<>>

(***************************************************************************)
(* POST /poll                                                              *)
(***************************************************************************)
\* Variant: command_queue.pop(), which takes the newest blob.
PopBack(queue) == [code |-> queue[Len(queue)], rest |-> SubSeq(queue, 1, Len(queue) - 1)]

\* command_queue.pop(0): the blob it returns and the queue it leaves.
PopFront(queue) == [code |-> Head(queue), rest |-> Tail(queue)]

\* Variant: the poll returns the oldest blob and leaves it in the queue.
poll_peeking ==
    /\ IF command_queue # <<>>
       THEN response' = [route |-> "poll", http |-> 200, has_code |-> TRUE,
                         code |-> PopFront(command_queue).code]
       ELSE response' = [route |-> "poll", http |-> 200, has_code |-> FALSE]
    /\ last_entry' = None
    /\ calls' = {}
    /\ UNCHANGED <<command_queue, command_history, user_preferences, ENABLE_IMAGES,
                   argument, threads, assigned_ids, cleared>>

poll ==
    /\ IF command_queue # <<>>
       THEN /\ response' = [route |-> "poll", http |-> 200, has_code |-> TRUE,
                            code |-> PopFront(command_queue).code]
            /\ command_queue' = PopFront(command_queue).rest
       ELSE /\ response' = [route |-> "poll", http |-> 200, has_code |-> FALSE]
            /\ UNCHANGED command_queue
    /\ last_entry' = None
    /\ calls' = {}
    /\ UNCHANGED <<command_history, user_preferences, ENABLE_IMAGES, argument, threads,
                   assigned_ids, cleared>>

\* Variant: command_queue.insert(0, blob).
EnqueueFront(queue, blob) == <<blob>> \o queue

\* Variant: a blob already waiting in the queue is not added again.
EnqueueOnce(queue, blob) ==
    IF \E i \in 1..Len(queue) : queue[i] = blob THEN queue ELSE Append(queue, blob)

\* command_queue.append(blob): the queue it leaves.
Enqueue(queue, blob) == Append(queue, blob)

(***************************************************************************)
(* POST /trigger                                                           *)
(***************************************************************************)
\* The id /trigger gives the entry it builds.
NewCommandId == Len(command_history) + 1

\* Variant: the entry stores the undo code in both code fields.
CommandEntryUndoOnly(scan, code) ==
    [id |-> NewCommandId,
     user_prompt |-> scan.clean,
     execution_code |-> code.undo_code,
     undo_code |-> code.undo_code,
     image_context |-> scan.context,
     status |-> "executed"]

\* The entry /trigger builds (the wall-clock timestamp is left out).
CommandEntry(scan, code) ==
    [id |-> NewCommandId,
     user_prompt |-> scan.clean,
     execution_code |-> code.execution_code,
     undo_code |-> code.undo_code,
     image_context |-> scan.context,
     status |-> "executed"]

\* "Trim history if too long": the history after the append of entry.
TrimmedHistory(entry) ==
    IF Len(command_history) + 1 > user_preferences.max_history_length
    THEN Tail(Append(command_history, entry))
    ELSE Append(command_history, entry)

\* Variant: the entry is stored whatever history_enabled says.
StoredHistoryAlways(entry) == TrimmedHistory(entry)

\* The history a /trigger that got past the checks leaves.
StoredHistory(entry) ==
    IF user_preferences.history_enabled THEN TrimmedHistory(entry) ELSE command_history

\* "command_id" of the queued response, read after the history was stored.
ReportedCommandId(history) ==
    IF user_preferences.history_enabled THEN Some(Len(history)) ELSE None

\* The names of what a handler can call: the keyword check and the scan of
\* the request, the generator, the pattern check of the generated code, and
\* the backend call /api/force_undo makes itself.
KEYWORD_CHECK == "changelevel_keywords"
SCAN == "sanitize_and_scan"
GENERATOR == "generate_lua"
PATTERN_CHECK == "dangerous_patterns"
BACKEND == "client.chat.completions.create"

\* Variant: a blocked request from which context was extracted goes on.
WasBlockedWithoutContext(scan) == scan.blocked /\ scan.context = ""

\* "if was_blocked": the scan blocked the request.
WasBlocked(scan) == scan.blocked

\* A /trigger that ends in "ignored" after the calls in called.
Ignored(message, called) ==
    /\ response' = [route |-> "trigger", http |-> 200, status |-> "ignored",
                    message |-> message]
    /\ last_entry' = None
    /\ calls' = called
    /\ UNCHANGED <<command_queue, command_history, user_preferences, ENABLE_IMAGES,
                   argument, threads, assigned_ids, cleared>>

\* prompt: the optional "prompt" of the body; scan: what sanitize_and_scan
\* returns; completion: what the generation backend does.
trigger(prompt, scan, completion) ==
    IF prompt = None \/ prompt = Some("")
    THEN /\ response' = [route |-> "trigger", http |-> 400, error |-> "No prompt"]
         /\ last_entry' = None
         /\ calls' = {}
         /\ UNCHANGED <<command_queue, command_history, user_preferences,
                        ENABLE_IMAGES, argument, threads, assigned_ids, cleared>>
    ELSE IF IsChangelevelRequestOf[prompt[1]]
    THEN Ignored("Map/level changing is blocked for safety.", {KEYWORD_CHECK})
    ELSE IF WasBlocked(scan)
    THEN Ignored("Safety protocols blocked this request.", {KEYWORD_CHECK, SCAN})
    ELSE IF IsDangerousCodeOf[generate_lua_of[completion].execution_code]
    THEN Ignored("Generated code attempted to change map (blocked).",
                 {KEYWORD_CHECK, SCAN, GENERATOR, PATTERN_CHECK})
    ELSE LET code == generate_lua_of[completion]
             entry == CommandEntry(scan, code)
         IN /\ Len(command_queue) < MaxQueue
            /\ Len(StoredHistory(entry)) <= MaxHistory
            /\ command_queue' = Enqueue(command_queue, code.execution_code)
            /\ command_history' = StoredHistory(entry)
            /\ last_entry' = IF user_preferences.history_enabled THEN Some(entry) ELSE None
            /\ assigned_ids' = IF user_preferences.history_enabled
                               THEN assigned_ids \cup {entry.id}
                               ELSE assigned_ids
            /\ cleared' = (cleared /\ ~user_preferences.history_enabled)
            /\ response' = [route |-> "trigger", http |-> 200, status |-> "queued",
                            code_preview |-> code.execution_code,
                            has_undo |-> TRUE,
                            command_id |-> ReportedCommandId(StoredHistory(entry)),
                            context_found |-> scan.context,
                            was_blocked |-> scan.blocked]
            /\ calls' = {KEYWORD_CHECK, SCAN, GENERATOR, PATTERN_CHECK}
            /\ UNCHANGED <<user_preferences, ENABLE_IMAGES, argument, threads>>

(***************************************************************************)
(* GET /api/history                                                        *)
(***************************************************************************)
get_history ==
    /\ response' = [route |-> "history", http |-> 200, history |-> command_history,
                    preferences |-> user_preferences]
    /\ last_entry' = None
    /\ calls' = {}
    /\ UNCHANGED <<command_queue, command_history, user_preferences, ENABLE_IMAGES,
                   argument, threads, assigned_ids, cleared>>

(***************************************************************************)
(* POST /api/repeat, /api/undo, /api/force_undo                            *)
(***************************************************************************)
\* Variant: an id that matches no entry falls back to the oldest entry.
FindCommandOrFirst(command_id) ==
    IF command_history = <<>> THEN None
    ELSE IF \E i \in 1..Len(command_history) : command_history[i].id = command_id
    THEN Some(command_history[CHOOSE i \in 1..Len(command_history) :
                /\ command_history[i].id = command_id
                /\ \A j \in 1..(i - 1) : command_history[j].id # command_id])
    ELSE Some(command_history[1])

\* next((cmd for cmd in command_history if cmd['id'] == command_id), None)
FindCommand(command_id) ==
    IF \E i \in 1..Len(command_history) : command_history[i].id = command_id
    THEN Some(command_history[CHOOSE i \in 1..Len(command_history) :
                /\ command_history[i].id = command_id
                /\ \A j \in 1..(i - 1) : command_history[j].id # command_id])
    ELSE None

\* "if not command_id": the key is missing, or the id is 0.
NoCommandId(command_id) == command_id = None \/ command_id = Some(0)

\* Variant: every error of the three handlers is answered as a server error.
ManagementErrorServerSide(route, http, message, called) ==
    /\ response' = [route |-> route, http |-> 500, status |-> "error",
                    message |-> message]
    /\ last_entry' = None
    /\ calls' = called
    /\ UNCHANGED <<command_queue, command_history, user_preferences, ENABLE_IMAGES,
                   argument, threads, assigned_ids, cleared>>

\* An error answer of the three handlers after the calls in called.
ManagementError(route, http, message, called) ==
    /\ response' = [route |-> route, http |-> http, status |-> "error",
                    message |-> message]
    /\ last_entry' = None
    /\ calls' = called
    /\ UNCHANGED <<command_queue, command_history, user_preferences, ENABLE_IMAGES,
                   argument, threads, assigned_ids, cleared>>

\* Variant: the blob replaces what is waiting in the queue.
RequeueReplacing(blob) ==
    /\ Len(command_queue) < MaxQueue
    /\ command_queue' = <<blob>>
    /\ last_entry' = None
    /\ UNCHANGED <<command_history, user_preferences, ENABLE_IMAGES, argument, threads,
                   assigned_ids, cleared>>

\* Variant: the blob is also recorded in the history, as the undo of nothing.
RequeueRecording(blob) ==
    /\ Len(command_queue) < MaxQueue
    /\ command_queue' = Enqueue(command_queue, blob)
    /\ command_history' =
          Append(command_history,
                 [id |-> Len(command_history) + 1, user_prompt |-> "",
                  execution_code |-> blob, undo_code |-> "", image_context |-> "",
                  status |-> "executed"])
    /\ last_entry' = None
    /\ UNCHANGED <<user_preferences, ENABLE_IMAGES, argument, threads, assigned_ids,
                   cleared>>

\* The common end of the three handlers: blob goes to the queue.
Requeue(blob) ==
    /\ Len(command_queue) < MaxQueue
    /\ command_queue' = Enqueue(command_queue, blob)
    /\ last_entry' = None
    /\ UNCHANGED <<command_history, user_preferences, ENABLE_IMAGES, argument, threads,
                   assigned_ids, cleared>>

repeat_command(command_id) ==
    IF NoCommandId(command_id)
    THEN ManagementError("repeat", 400, "No command ID provided", {})
    ELSE IF FindCommand(command_id[1]) = None
    THEN ManagementError("repeat", 404, "Command not found in history", {})
    ELSE /\ Requeue(FindCommand(command_id[1])[1].execution_code)
         /\ calls' = {}
         /\ response' = [route |-> "repeat", http |-> 200, status |-> "success",
                         message |-> "Command re-queued for execution",
                         command_id |-> command_id[1]]

undo_command(command_id) ==
    IF NoCommandId(command_id)
    THEN ManagementError("undo", 400, "No command ID provided", {})
    ELSE IF FindCommand(command_id[1]) = None
    THEN ManagementError("undo", 404, "Command not found in history", {})
    ELSE /\ Requeue(FindCommand(command_id[1])[1].undo_code)
         /\ calls' = {}
         /\ response' = [route |-> "undo", http |-> 200, status |-> "success",
                         message |-> "Undo code queued for execution",
                         command_id |-> command_id[1]]

\* Variant: a failure of the backend call yields the generator's placeholder.
ForceUndoCodeWithPlaceholder(completion) ==
    IF completion = None
    THEN Some("print(\"AI Generation Failed\")")
    ELSE Some(CleanCompletionOf[completion[1]])

\* The code the try block of /api/force_undo gets from the backend: None if
\* the call raises, else its answer with fences removed and stripped.
ForceUndoCode(completion) ==
    IF completion = None THEN None ELSE Some(CleanCompletionOf[completion[1]])

\* completion: what the generation backend does with the force-undo prompt.
force_undo_command(command_id, completion) ==
    IF NoCommandId(command_id)
    THEN ManagementError("force_undo", 400, "No command ID provided", {})
    ELSE IF FindCommand(command_id[1]) = None
    THEN ManagementError("force_undo", 404, "Command not found in history", {})
    ELSE IF ForceUndoCode(completion) = None
    THEN ManagementError("force_undo", 500, "AI generation failed", {BACKEND})
    ELSE /\ Requeue(ForceUndoCode(completion)[1])
         /\ calls' = {BACKEND}
         /\ response' = [route |-> "force_undo", http |-> 200, status |-> "success",
                         message |-> "AI-generated force undo queued",
                         command_id |-> command_id[1],
                         force_undo_code |-> ForceUndoCode(completion)[1]]

(***************************************************************************)
(* POST /api/preferences, /api/clear_history                               *)
(***************************************************************************)
\* data: for each of the three keys, None if the body lacks it.
UpdatedPreferences(data) ==
    [key \in {"include_history_in_ai", "history_enabled", "max_history_length"} |->
        IF data[key] # None THEN data[key][1] ELSE user_preferences[key]]

\* Variant: the history is cut down to the new max_history_length at once.
update_preferences_trimming(data) ==
    /\ user_preferences' = UpdatedPreferences(data)
    /\ command_history' =
          IF /\ UpdatedPreferences(data).max_history_length >= 0
             /\ Len(command_history) > UpdatedPreferences(data).max_history_length
          THEN SubSeq(command_history,
                      Len(command_history) + 1 - UpdatedPreferences(data).max_history_length,
                      Len(command_history))
          ELSE command_history
    /\ response' = [route |-> "preferences", http |-> 200, status |-> "success",
                    preferences |-> UpdatedPreferences(data)]
    /\ last_entry' = None
    /\ calls' = {}
    /\ UNCHANGED <<command_queue, ENABLE_IMAGES, argument, threads, assigned_ids, cleared>>

update_preferences(data) ==
    /\ user_preferences' = UpdatedPreferences(data)
    /\ response' = [route |-> "preferences", http |-> 200, status |-> "success",
                    preferences |-> UpdatedPreferences(data)]
    /\ last_entry' = None
    /\ calls' = {}
    /\ UNCHANGED <<command_queue, command_history, ENABLE_IMAGES, argument, threads,
                   assigned_ids, cleared>>

\* Variant: the clear also puts the preferences back to their defaults.
clear_history_resetting_preferences ==
    /\ command_history' = <<>>
    /\ user_preferences' = [include_history_in_ai |-> TRUE, history_enabled |-> TRUE,
                            max_history_length |-> 50]
    /\ response' = [route |-> "clear_history", http |-> 200, status |-> "success",
                    message |-> "History cleared"]
    /\ last_entry' = None
    /\ cleared' = TRUE
    /\ calls' = {}
    /\ UNCHANGED <<command_queue, ENABLE_IMAGES, argument, threads, assigned_ids>>

\* Variant: the clear also throws away the blobs that wait in the queue.
clear_history_emptying_queue ==
    /\ command_history' = <<>>
    /\ command_queue' = <<>>
    /\ response' = [route |-> "clear_history", http |-> 200, status |-> "success",
                    message |-> "History cleared"]
    /\ last_entry' = None
    /\ cleared' = TRUE
    /\ calls' = {}
    /\ UNCHANGED <<user_preferences, ENABLE_IMAGES, argument, threads, assigned_ids>>

clear_history ==
    /\ command_history' = <<>>
    /\ response' = [route |-> "clear_history", http |-> 200, status |-> "success",
                    message |-> "History cleared"]
    /\ last_entry' = None
    /\ cleared' = TRUE
    /\ calls' = {}
    /\ UNCHANGED <<command_queue, user_preferences, ENABLE_IMAGES, argument, threads,
                   assigned_ids>>

(***************************************************************************)
(* The specification: every handler, on the requests of the given sets.    *)
(***************************************************************************)
NextOn(prompts, completions, force_completions, command_ids, bodies) ==
    \/ poll
    \/ \E prompt \in prompts, completion \in completions :
         \E scan \in (IF prompt = None THEN {None} ELSE sanitize_and_scan(prompt[1])) :
            trigger(prompt, scan, completion)
    \/ get_history
    \/ \E command_id \in command_ids : repeat_command(command_id)
    \/ \E command_id \in command_ids : undo_command(command_id)
    \/ \E command_id \in command_ids, completion \in force_completions :
         force_undo_command(command_id, completion)
    \/ \E data \in bodies : update_preferences(data)
    \/ clear_history

Prompts == {None, Some("make everyone tiny"), Some("Load Map d1_town")}

Completions ==
    {Some("SetTiny()\n---UNDO---\nSetNormal()"),
     Some("RunConsoleCommand(\"changelevel\", \"d1_town\")")}

ForceUndoCompletions == {None, Some("~~~lua\nResetAll()\n~~~")}

CommandIds == {None} \cup {Some(n) : n \in 0..(MaxHistory + 2)}

PreferenceBodies ==
    [include_history_in_ai : {None, Some(TRUE), Some(FALSE)},
     history_enabled : {None, Some(TRUE), Some(FALSE)},
     max_history_length : {None, Some(1), Some(2)}]

Next == NextOn(Prompts, Completions, ForceUndoCompletions, CommandIds, PreferenceBodies)

Spec == Init /\ [][Next]_vars

(***************************************************************************)
(* The application with image scanning switched on (ENABLE_IMAGES = True).  *)
(***************************************************************************)
InitImages ==
    /\ command_queue = <<>>
    /\ command_history = <<>>
    /\ user_preferences = [include_history_in_ai |-> TRUE,
                           history_enabled |-> TRUE,
                           max_history_length |-> 50]
    /\ ENABLE_IMAGES = TRUE
    /\ response = [route |-> "none"]
    /\ last_entry = None
    /\ assigned_ids = {}
    /\ cleared = FALSE
    /\ calls = {}
    /\ argument = None
    /\ threads = <<>>

ImagePrompts ==
    {Some("Load Map d1_town"),
     Some("wear https://i.imgur.com/a.png"),
     Some("mix https://imgur.com/a.png and http://x.io/b.png")}

ImageCompletions == {Some("SetTiny()\n---UNDO---\nSetNormal()")}

ImageCommandIds == {None, Some(1), Some(2)}

ImagePreferenceBodies ==
    [include_history_in_ai : {None},
     history_enabled : {None, Some(TRUE), Some(FALSE)},
     max_history_length : {None, Some(1)}]

NextImages ==
    NextOn(ImagePrompts, ImageCompletions, ForceUndoCompletions, ImageCommandIds,
           ImagePreferenceBodies)

SpecImages == InitImages /\ [][NextImages]_vars

(***************************************************************************)
(* The application with a generation backend that can fail on /trigger.    *)
(***************************************************************************)
FailurePrompts == {None, Some("make everyone tiny")}

FailureCompletions == {None, Some("SetTiny()\n---UNDO---\nSetNormal()")}

NextFailure ==
    NextOn(FailurePrompts, FailureCompletions, ForceUndoCompletions, ImageCommandIds,
           ImagePreferenceBodies)

SpecFailure == Init /\ [][NextFailure]_vars

(***************************************************************************)
(* The application with /api/preferences bodies that carry any integer as  *)
(* max_history_length.                                                     *)
(***************************************************************************)
CapPreferenceBodies ==
    [include_history_in_ai : {None},
     history_enabled : {None, Some(TRUE), Some(FALSE)},
     max_history_length : {None, Some(-1), Some(0), Some(1)}]

NextCaps ==
    NextOn(FailurePrompts, ImageCompletions, ForceUndoCompletions, ImageCommandIds,
           CapPreferenceBodies)

SpecCaps == Init /\ [][NextCaps]_vars

(***************************************************************************)
(* The application with a backend that writes a map change into the undo   *)
(* part of its answer, or into its answer to /api/force_undo.              *)
(***************************************************************************)
UndoCompletions ==
    {Some("SetTiny()\n---UNDO---\nSetNormal()"),
     Some("SetTiny()\n---UNDO---\nRunConsoleCommand(\"changelevel\", \"d1_town\")")}

UndoForceCompletions ==
    {None, Some("RunConsoleCommand(\"changelevel\", \"d1_town\")")}

NextUndo ==
    NextOn(FailurePrompts, UndoCompletions, UndoForceCompletions, ImageCommandIds,
           ImagePreferenceBodies)

SpecUndo == Init /\ [][NextUndo]_vars

(***************************************************************************)
(* generate_lua on its own: the backend outcome is drawn at the start, the  *)
(* one step is the call.                                                   *)
(***************************************************************************)
\* The backend answers are the texts of at most MaxPieces pieces.
MaxPieces == 5

PIECES == <<"A()", "B()", "\n", "---UNDO---">>

RECURSIVE ContentsOf(_)
ContentsOf(n) ==
    IF n = 0 THEN {""}
    ELSE ContentsOf(n - 1)
            \cup {content \o PIECES[k] : content \in ContentsOf(n - 1), k \in 1..Len(PIECES)}

ParseCompletions == {None} \cup {Some(content) : content \in ContentsOf(MaxPieces)}

InitParse ==
    /\ command_queue = <<>>
    /\ command_history = <<>>
    /\ user_preferences = [include_history_in_ai |-> TRUE,
                           history_enabled |-> TRUE,
                           max_history_length |-> 50]
    /\ ENABLE_IMAGES = FALSE
    /\ response = [route |-> "none"]
    /\ last_entry = None
    /\ assigned_ids = {}
    /\ cleared = FALSE
    /\ calls = {}
    /\ argument \in {Some(completion) : completion \in ParseCompletions}
    /\ threads = <<>>

\* The call generate_lua(...) when the backend does what argument says.
generate_lua_call ==
    /\ response.route = "none"
    /\ response' = [route |-> "generate_lua",
                    execution_code |-> generate_lua(argument[1]).execution_code,
                    undo_code |-> generate_lua(argument[1]).undo_code]
    /\ calls' = {GENERATOR}
    /\ UNCHANGED <<command_queue, command_history, user_preferences, ENABLE_IMAGES,
                   last_entry, assigned_ids, cleared, argument, threads>>

NextParse == generate_lua_call

SpecParse == InitParse /\ [][NextParse]_vars

(***************************************************************************)
(* The history digest of generate_lua on its own: the history is one that  *)
(* /trigger has filled under the default cap, the one step builds the      *)
(* digest for the next request.                                            *)
(***************************************************************************)
MaxDigestHistory == 6

DigestPrompts == {"make everyone tiny", "make everyone big"}

\* The histories n queued requests leave, for every choice of their prompts.
HistoriesOf(n) ==
    {[i \in 1..n |->
        [id |-> i, user_prompt |-> prompts[i], execution_code |-> "SetTiny()",
         undo_code |-> "SetNormal()", image_context |-> "", status |-> "executed"]] :
     prompts \in [1..n -> DigestPrompts]}

InitDigest ==
    /\ command_queue = <<>>
    /\ command_history \in UNION {HistoriesOf(n) : n \in 0..MaxDigestHistory}
    /\ user_preferences \in [include_history_in_ai : BOOLEAN,
                              history_enabled : {TRUE},
                              max_history_length : {50}]
    /\ ENABLE_IMAGES = FALSE
    /\ response = [route |-> "none"]
    /\ last_entry = None
    /\ assigned_ids = {command_history[i].id : i \in 1..Len(command_history)}
    /\ cleared = FALSE
    /\ calls = {}
    /\ argument = Some(TRUE)
    /\ threads = <<>>

\* The start of generate_lua(..., include_history = argument).
history_digest_call ==
    /\ response.route = "none"
    /\ response' = [route |-> "history_digest",
                    digest |-> HistoryDigest(argument[1], user_preferences, command_history)]
    /\ calls' = {GENERATOR}
    /\ UNCHANGED <<command_queue, command_history, user_preferences, ENABLE_IMAGES,
                   last_entry, assigned_ids, cleared, argument, threads>>

NextDigest == history_digest_call

SpecDigest == InitDigest /\ [][NextDigest]_vars

(***************************************************************************)
(* The application with a client that keeps polling: a request to /poll    *)
(* that can take a blob from the queue is not put off for ever.            *)
(***************************************************************************)
PollPrompts == {Some("make everyone tiny")}

PollCommandIds == {Some(1)}

PollForceCompletions == {Some("~~~lua\nResetAll()\n~~~")}

PollPreferenceBodies ==
    [include_history_in_ai : {None},
     history_enabled : {Some(TRUE), Some(FALSE)},
     max_history_length : {None}]

NextPoll ==
    NextOn(PollPrompts, FailureCompletions, PollForceCompletions, PollCommandIds,
           PollPreferenceBodies)

SpecPoll == Init /\ [][NextPoll]_vars /\ WF_vars(poll)

(***************************************************************************)
(* /trigger handlers that run concurrently. The server is started with     *)
(* app.run(port=5000), which serves every request in a thread of its own,  *)
(* and brain.py takes no lock: a handler can be preempted between any two  *)
(* of its statements. Each thread serves one /trigger; each step below is  *)
(* one statement (or one check with its return) of the handler.            *)
(***************************************************************************)
NumThreads == 2

Threads == 1..NumThreads

\* The positions of a handler; the last three are its ends: the 400 answer,
\* the "ignored" answer and the "queued" answer.
Idle == "idle"
Received == "received"
Gated == "gated"
Scanned == "scanned"
Generated == "generated"
Checked == "checked"
Enqueued == "enqueued"
Built == "built"
Appended == "appended"
Stored == "stored"
Failed == "failed"
RejectedEnd == "rejected"
AcceptedEnd == "accepted"

\* The local variables of a handler that has not started.
IdleThread ==
    [pc |-> Idle, user_request |-> None, scan |-> None, code |-> None,
     command_entry |-> None, command_id |-> None]

\* Thread t goes on with the local variables in local; only the listed
\* shared variables can change in a step of a thread.
ThreadStep(t, local) ==
    /\ threads' = [threads EXCEPT ![t] = local]
    /\ UNCHANGED <<user_preferences, response, ENABLE_IMAGES, last_entry, assigned_ids,
                   cleared, calls, argument>>

\* user_request = data.get('prompt'); if not user_request: return ..., 400
trigger_receive(t, prompt) ==
    /\ threads[t].pc = Idle
    /\ ThreadStep(t, IF prompt = None \/ prompt = Some("")
                     THEN [threads[t] EXCEPT !.pc = Failed]
                     ELSE [threads[t] EXCEPT !.pc = Received, !.user_request = prompt])
    /\ UNCHANGED <<command_queue, command_history>>

\* 0. Block changelevel attempts
trigger_gate(t) ==
    /\ threads[t].pc = Received
    /\ ThreadStep(t, IF IsChangelevelRequestOf[threads[t].user_request[1]]
                     THEN [threads[t] EXCEPT !.pc = RejectedEnd]
                     ELSE [threads[t] EXCEPT !.pc = Gated])
    /\ UNCHANGED <<command_queue, command_history>>

\* Variant: the request goes on whatever the scan says.
trigger_scan_unblocking(t, scan) ==
    /\ threads[t].pc = Gated
    /\ ThreadStep(t, [threads[t] EXCEPT !.pc = Scanned, !.scan = Some(scan)])
    /\ UNCHANGED <<command_queue, command_history>>

\* 1. Sanitize & Scan; scan is what sanitize_and_scan returns.
trigger_scan(t, scan) ==
    /\ threads[t].pc = Gated
    /\ ThreadStep(t, IF WasBlocked(scan)
                     THEN [threads[t] EXCEPT !.pc = RejectedEnd, !.scan = Some(scan)]
                     ELSE [threads[t] EXCEPT !.pc = Scanned, !.scan = Some(scan)])
    /\ UNCHANGED <<command_queue, command_history>>

\* Variant: after a failure of the backend the request is scanned and
\* generated again.
trigger_generate_retrying(t, completion) ==
    /\ threads[t].pc = Scanned
    /\ ThreadStep(t, IF completion = None
                     THEN [threads[t] EXCEPT !.pc = Gated, !.scan = None]
                     ELSE [threads[t] EXCEPT !.pc = Generated,
                                             !.code = Some(generate_lua_of[completion])])
    /\ UNCHANGED <<command_queue, command_history>>

\* 2. Generate Code with Undo; completion is what the backend does.
trigger_generate(t, completion) ==
    /\ threads[t].pc = Scanned
    /\ ThreadStep(t, [threads[t] EXCEPT !.pc = Generated,
                                        !.code = Some(generate_lua_of[completion])])
    /\ UNCHANGED <<command_queue, command_history>>

\* 2.5. Post-generation safety check for changelevel commands
trigger_check(t) ==
    /\ threads[t].pc = Generated
    /\ ThreadStep(t, IF IsDangerousCodeOf[threads[t].code[1].execution_code]
                     THEN [threads[t] EXCEPT !.pc = RejectedEnd]
                     ELSE [threads[t] EXCEPT !.pc = Checked])
    /\ UNCHANGED <<command_queue, command_history>>

\* command_queue.append(execution_code)
trigger_enqueue(t) ==
    /\ threads[t].pc = Checked
    /\ command_queue' = Enqueue(command_queue, threads[t].code[1].execution_code)
    /\ ThreadStep(t, [threads[t] EXCEPT !.pc = Enqueued])
    /\ UNCHANGED command_history

\* if user_preferences['history_enabled']: command_entry = {...}; the id is
\* read from the length the history has at this moment.
trigger_build(t) ==
    /\ threads[t].pc = Enqueued
    /\ ThreadStep(t, IF user_preferences.history_enabled
                     THEN [threads[t] EXCEPT
                             !.pc = Built,
                             !.command_entry =
                                 Some(CommandEntry(threads[t].scan[1], threads[t].code[1]))]
                     ELSE [threads[t] EXCEPT !.pc = Stored])
    /\ UNCHANGED <<command_queue, command_history>>

\* command_history.append(command_entry)
trigger_append(t) ==
    /\ threads[t].pc = Built
    /\ command_history' = Append(command_history, threads[t].command_entry[1])
    /\ ThreadStep(t, [threads[t] EXCEPT !.pc = Appended])
    /\ UNCHANGED command_queue

\* if len(command_history) > max_history_length: command_history.pop(0)
trigger_trim(t) ==
    /\ threads[t].pc = Appended
    /\ command_history' =
          IF Len(command_history) > user_preferences.max_history_length
          THEN Tail(command_history)
          ELSE command_history
    /\ ThreadStep(t, [threads[t] EXCEPT !.pc = Stored])
    /\ UNCHANGED command_queue

\* return jsonify({"status": "queued", ..., "command_id": ...})
trigger_respond(t) ==
    /\ threads[t].pc = Stored
    /\ ThreadStep(t, [threads[t] EXCEPT
                        !.pc = AcceptedEnd,
                        !.command_id = ReportedCommandId(command_history)])
    /\ UNCHANGED <<command_queue, command_history>>

\* The steps of thread t after it took its request.
trigger_steps(t) ==
    \/ trigger_gate(t)
    \/ /\ threads[t].pc = Gated
       /\ \E scan \in sanitize_and_scan(threads[t].user_request[1]) : trigger_scan(t, scan)
    \/ \E completion \in FailureCompletions : trigger_generate(t, completion)
    \/ trigger_check(t)
    \/ trigger_enqueue(t)
    \/ trigger_build(t)
    \/ trigger_append(t)
    \/ trigger_trim(t)
    \/ trigger_respond(t)

InitThreads ==
    /\ command_queue = <<>>
    /\ command_history = <<>>
    /\ user_preferences = [include_history_in_ai |-> TRUE,
                           history_enabled |-> TRUE,
                           max_history_length |-> 50]
    /\ ENABLE_IMAGES = TRUE
    /\ response = [route |-> "none"]
    /\ last_entry = None
    /\ assigned_ids = {}
    /\ cleared = FALSE
    /\ calls = {}
    /\ argument = None
    /\ threads = [t \in Threads |-> IdleThread]

ThreadPrompts ==
    {None, Some("make everyone tiny"), Some("Load Map d1_town"),
     Some("wear https://i.imgur.com/a.png")}

NextThreads ==
    \E t \in Threads :
        \/ \E prompt \in ThreadPrompts : trigger_receive(t, prompt)
        \/ trigger_steps(t)

SpecThreads == InitThreads /\ [][NextThreads]_vars

\* A handler that has its request is not suspended for ever, and the scan
\* and the backend call it waits for return or fail.
SpecThreadsFair ==
    InitThreads /\ [][NextThreads]_vars /\ \A t \in Threads : WF_vars(trigger_steps(t))

(***************************************************************************)
(* Properties.                                                             *)
(***************************************************************************)
\* r is the response of a /trigger that queued its code.
Queued(r) == r.route = "trigger" /\ r.http = 200 /\ r.status = "queued"

\* r is the response of a /trigger that ignored the request.
Rejected(r) == r.route = "trigger" /\ r.http = 200 /\ r.status = "ignored"

\* r is the response of a repeat, undo or force-undo that went through.
Requeued(r) == r.route \in {"repeat", "undo", "force_undo"} /\ r.http = 200

\* The request texts, and the backend outcomes, of the tables above.
AllPrompts == {Some(text) : text \in PromptTexts}
AllCompletions == DOMAIN generate_lua_of

\* The request texts that contain a denylisted phrase, letter case ignored.
DenylistedTexts ==
    {text \in PromptTexts :
        \E k \in 1..Len(changelevel_keywords) :
            Contains(Lower(text), Lower(changelevel_keywords[k]))}

\* C1: the ids of the entries in the history are pairwise distinct and
\* strictly increasing from front to back, in every reachable state.
C1_IdsStrictlyIncreasing ==
    \A i, j \in 1..Len(command_history) :
        i < j => command_history[i].id < command_history[j].id

\* C2: a /trigger that queues its code with history enabled makes the history
\* one longer, or leaves its length as it is if it was at max_history_length
\* (the oldest entry gone, the new one last), and the id of the new entry is
\* greater than every id assigned before, evicted entries included.
C2_AppendGrowsWithFreshId ==
    [][ (Queued(response') /\ user_preferences.history_enabled) =>
            /\ last_entry' # None
            /\ \/ command_history' = Append(command_history, last_entry'[1])
               \/ /\ Len(command_history) = user_preferences.max_history_length
                  /\ command_history' =
                        SubSeq(Append(command_history, last_entry'[1]),
                               2, Len(command_history) + 1)
            /\ \A id \in assigned_ids : last_entry'[1].id > id ]_vars

\* C3: the command_id of a queued response is the id of the entry built for
\* that request, and it is null exactly when no entry was built.
C3_ResponseReportsEntryId ==
    Queued(response) =>
        IF last_entry # None
        THEN response.command_id = Some(last_entry[1].id)
        ELSE response.command_id = None

\* C4: the history is never longer than max_history_length.
C4_HistoryWithinCap ==
    Len(command_history) <= user_preferences.max_history_length

\* C5: the first entry stored after a clear of the history gets an id greater
\* than every id assigned before the clear.
C5_IdsContinueAfterClear ==
    [][ (cleared /\ Queued(response') /\ last_entry' # None) =>
            \A id \in assigned_ids : last_entry'[1].id > id ]_vars

\* C6: a /trigger whose prompt contains a denylisted phrase (letter case
\* ignored) answers "ignored" and changes neither the queue nor the history.
C6_DenylistedRequestIgnored ==
    [][ \A text \in DenylistedTexts, completion \in AllCompletions :
          \A scan \in sanitize_and_scan(text) :
            trigger(Some(text), scan, completion) =>
                /\ Rejected(response')
                /\ UNCHANGED <<command_queue, command_history>> ]_vars

C6_Witness ==
    /\ Rejected(response)
    /\ response.message = "Map/level changing is blocked for safety."
    /\ command_queue # <<>>
    /\ command_history # <<>>

\* C7: a /trigger that queues its code makes the queue exactly one longer, the
\* new last blob being the execution code generated for that request, with
\* history enabled or not.
C7_AcceptedEnqueuesItsCode ==
    [][ \A prompt \in AllPrompts, completion \in AllCompletions :
          \A scan \in sanitize_and_scan(prompt[1]) :
            (trigger(prompt, scan, completion) /\ Queued(response')) =>
                /\ Len(command_queue') = Len(command_queue) + 1
                /\ command_queue' =
                      Append(command_queue, generate_lua_of[completion].execution_code) ]_vars

C7_Witness ==
    /\ Queued(response)
    /\ Len(command_queue) = 2
    /\ command_queue[1] # command_queue[2]
    /\ command_queue[2] = response.code_preview

\* C8: with history_enabled false, a /trigger that queues its code leaves the
\* history as it is and reports no command id.
C8_HistoryOffLeavesLedger ==
    [][ (Queued(response') /\ ~user_preferences.history_enabled) =>
            /\ command_queue' = Append(command_queue, response'.code_preview)
            /\ UNCHANGED command_history
            /\ last_entry' = None
            /\ response'.command_id = None ]_vars

C8_Witness ==
    /\ Queued(response)
    /\ ~user_preferences.history_enabled
    /\ response.command_id = None
    /\ Len(command_history) > user_preferences.max_history_length

\* The blob a handler that answered r from history h says it put in the queue.
ReportedBlobs(r, h) ==
    IF r.route = "trigger" THEN {r.code_preview}
    ELSE IF r.route = "force_undo" THEN {r.force_undo_code}
    ELSE IF r.route = "repeat"
    THEN {h[i].execution_code : i \in {n \in 1..Len(h) : h[n].id = r.command_id}}
    ELSE {h[i].undo_code : i \in {n \in 1..Len(h) : h[n].id = r.command_id}}

\* C9: the queue is first in, first out. Every step is one of: a /trigger,
\* repeat, undo or force-undo that went through and put exactly its blob
\* behind all waiting ones (also when an equal blob is waiting); a poll that
\* took exactly the oldest waiting blob and returned it; or a step that
\* leaves the queue as it is. Hence the blobs polled are the blobs enqueued,
\* in that order, each once.
C9_QueueIsFifo ==
    [][ IF Queued(response') \/ Requeued(response')
        THEN \E blob \in ReportedBlobs(response', command_history) :
                command_queue' = Append(command_queue, blob)
        ELSE IF response'.route = "poll" /\ response'.has_code
        THEN /\ command_queue # <<>>
             /\ response'.code = Head(command_queue)
             /\ command_queue' = Tail(command_queue)
        ELSE UNCHANGED command_queue ]_vars

C9_Witness ==
    /\ Requeued(response)
    /\ Len(command_queue) = 2
    /\ command_queue[1] = command_queue[2]

\* C10: a poll of a non-empty queue removes the oldest blob and returns it
\* with has_code true; a poll of an empty queue returns has_code false and
\* changes neither the queue, the history nor the preferences.
C10_PollTakesHead ==
    [][ response'.route = "poll" =>
            IF command_queue # <<>>
            THEN /\ response'.has_code
                 /\ response'.code = Head(command_queue)
                 /\ command_queue' = Tail(command_queue)
                 /\ UNCHANGED <<command_history, user_preferences>>
            ELSE /\ ~response'.has_code
                 /\ UNCHANGED <<command_queue, command_history, user_preferences>> ]_vars

C10_Witness ==
    /\ response.route = "poll"
    /\ response.has_code
    /\ command_queue # <<>>
    /\ response.code # command_queue[1]

\* The ids of the entries in the history.
PresentIds == {command_history[i].id : i \in 1..Len(command_history)}

\* The entries in the history with the given id.
EntriesWithId(id) ==
    {command_history[i] : i \in {n \in 1..Len(command_history) : command_history[n].id = id}}

\* C11: /api/repeat with the id of an entry in the history puts that entry's
\* execution code, as stored, behind the waiting blobs, calls neither a check
\* nor the generator and leaves history and preferences as they are; a
\* second repeat of the same id right after the first leaves the same code
\* twice at the end of the queue.
C11_RepeatEnqueuesUnchanged ==
    [][ \A id \in PresentIds :
          repeat_command(Some(id)) =>
            /\ \E entry \in EntriesWithId(id) :
                  command_queue' = Append(command_queue, entry.execution_code)
            /\ calls' = {}
            /\ UNCHANGED <<command_history, user_preferences>>
            /\ (response.route = "repeat" /\ response.http = 200
                    /\ response.command_id = id) =>
                  /\ Len(command_queue') = Len(command_queue) + 1
                  /\ command_queue # <<>>
                  /\ command_queue'[Len(command_queue')] = command_queue[Len(command_queue)] ]_vars

C11_Witness ==
    /\ response.route = "repeat"
    /\ response.http = 200
    /\ Len(command_queue) = 2
    /\ command_queue[1] = command_queue[2]
    /\ \E entry \in EntriesWithId(response.command_id) :
          entry.execution_code = command_queue[2]

\* C12: /api/undo with the id of an entry in the history puts exactly that
\* entry's undo code behind the waiting blobs and leaves history and
\* preferences as they are.
C12_UndoEnqueuesUndoCode ==
    [][ \A id \in PresentIds :
          undo_command(Some(id)) =>
            /\ \E entry \in EntriesWithId(id) :
                  command_queue' = Append(command_queue, entry.undo_code)
            /\ UNCHANGED <<command_history, user_preferences>> ]_vars

C12_Witness ==
    /\ response.route = "undo"
    /\ response.http = 200
    /\ Len(command_queue) = 2
    /\ \E entry \in EntriesWithId(response.command_id) :
          /\ entry.execution_code = command_queue[1]
          /\ entry.undo_code = command_queue[2]
          /\ entry.undo_code # entry.execution_code

\* C13: /api/repeat, /api/undo and /api/force_undo with an id that no entry
\* of the history has (never assigned, evicted or cleared) answer with
\* status "error", leave queue, history and preferences as they are, and call
\* nothing, the generation backend included. (Only these three handlers answer
\* on these three routes.)
C13_AbsentIdIsError ==
    [][ response'.route \in {"repeat", "undo", "force_undo"} =>
          \A command_id \in CommandIds :
            (/\ command_id = None \/ command_id[1] \notin PresentIds
             /\ \/ repeat_command(command_id)
                \/ undo_command(command_id)
                \/ \E completion \in ForceUndoCompletions :
                      force_undo_command(command_id, completion)) =>
              /\ response'.status = "error"
              /\ calls' = {}
              /\ UNCHANGED <<command_queue, command_history, user_preferences>> ]_vars

C13_Witness ==
    /\ response.route = "force_undo"
    /\ response.http = 404
    /\ assigned_ids # {}
    /\ command_history = <<>>
    /\ command_queue # <<>>

\* C14: when the scan of a /trigger request reports blocked, the request ends
\* in "ignored": nothing is put in the queue, nothing is stored in the
\* history, and the generator is not called, whatever context the scan
\* extracted.
C14_BlockedScanIgnored ==
    [][ \A prompt \in ImagePrompts, completion \in ImageCompletions :
          \A scan \in sanitize_and_scan(prompt[1]) :
            (scan.blocked /\ trigger(prompt, scan, completion)) =>
                /\ Rejected(response')
                /\ GENERATOR \notin calls'
                /\ UNCHANGED <<command_queue, command_history>> ]_vars

C14_Witness ==
    /\ ENABLE_IMAGES
    /\ Rejected(response)
    /\ response.message = "Safety protocols blocked this request."
    /\ SCAN \in calls
    /\ command_queue # <<>>
    /\ command_history # <<>>

\* The backend outcomes whose execution code matches a forbidden pattern.
ForbiddenCompletions ==
    {completion \in AllCompletions :
        \E k \in 1..Len(dangerous_patterns) :
            re_search(dangerous_patterns[k], generate_lua_of[completion].execution_code)}

\* C15: a /trigger whose generated execution code matches a forbidden pattern
\* ends in "ignored" with nothing put in the queue and nothing stored in the
\* history; when the keyword check and the scan let the request pass, it is
\* the pattern check of the generated code that rejects it.
C15_ForbiddenCodeIgnored ==
    [][ \A prompt \in AllPrompts, completion \in ForbiddenCompletions :
          \A scan \in sanitize_and_scan(prompt[1]) :
            (prompt[1] # "" /\ trigger(prompt, scan, completion)) =>
                /\ Rejected(response')
                /\ UNCHANGED <<command_queue, command_history>>
                /\ (prompt[1] \notin DenylistedTexts /\ ~scan.blocked) =>
                      /\ calls' = {KEYWORD_CHECK, SCAN, GENERATOR, PATTERN_CHECK}
                      /\ response'.message =
                            "Generated code attempted to change map (blocked)." ]_vars

C15_Witness ==
    /\ Rejected(response)
    /\ response.message = "Generated code attempted to change map (blocked)."
    /\ PATTERN_CHECK \in calls
    /\ command_queue # <<>>
    /\ command_history # <<>>

\* C16: a failure of the generator during a /trigger does not fail the
\* request: the execution code and the undo code become the two fixed
\* placeholders, the request answers "queued", the placeholder execution code
\* goes to the end of the queue, and with history enabled the entry with
\* both placeholders is stored last.
C16_GeneratorFailureDegrades ==
    [][ \A prompt \in AllPrompts : \A scan \in sanitize_and_scan(prompt[1]) :
          (/\ prompt[1] # ""
           /\ prompt[1] \notin DenylistedTexts
           /\ ~scan.blocked
           /\ trigger(prompt, scan, None)) =>
            /\ Queued(response')
            /\ response'.code_preview = "print(\"AI Generation Failed\")"
            /\ command_queue' = Append(command_queue, "print(\"AI Generation Failed\")")
            /\ IF user_preferences.history_enabled
               THEN /\ last_entry' # None
                    /\ last_entry'[1].execution_code = "print(\"AI Generation Failed\")"
                    /\ last_entry'[1].undo_code = "print(\"Undo not available\")"
                    /\ command_history' # <<>>
                    /\ command_history'[Len(command_history')] = last_entry'[1]
               ELSE UNCHANGED command_history ]_vars

C16_Witness ==
    /\ Queued(response)
    /\ response.code_preview = "print(\"AI Generation Failed\")"
    /\ last_entry # None
    /\ last_entry[1].undo_code = "print(\"Undo not available\")"
    /\ command_history # <<>>
    /\ command_history[Len(command_history)] = last_entry[1]
    /\ command_queue # <<>>
    /\ command_queue[Len(command_queue)] = "print(\"AI Generation Failed\")"

\* C17: when the backend call fails during /api/force_undo for the id of an
\* entry in the history, the caller gets status "error" and nothing is put
\* in the queue: queue and history are as before, no placeholder is queued.
C17_ForceUndoFailureSurfaces ==
    [][ \A id \in PresentIds :
          force_undo_command(Some(id), None) =>
            /\ response'.status = "error"
            /\ response'.http = 500
            /\ BACKEND \in calls'
            /\ UNCHANGED <<command_queue, command_history>> ]_vars

C17_Witness ==
    /\ response.route = "force_undo"
    /\ response.http = 500
    /\ response.status = "error"
    /\ command_history # <<>>
    /\ command_queue # <<>>

\* C18: a /api/force_undo that succeeds puts exactly one blob, the code just
\* generated (fences removed, stripped), behind the waiting blobs and leaves
\* the history as it is: no entry is added, none is changed.
C18_ForceUndoEnqueuesNewCode ==
    [][ \A id \in PresentIds, completion \in ForceUndoCompletions \ {None} :
          force_undo_command(Some(id), completion) =>
            /\ response'.status = "success"
            /\ response'.force_undo_code = CleanCompletionOf[completion[1]]
            /\ command_queue' = Append(command_queue, CleanCompletionOf[completion[1]])
            /\ UNCHANGED command_history ]_vars

C18_Witness ==
    /\ response.route = "force_undo"
    /\ response.http = 200
    /\ Len(command_queue) = 2
    /\ command_queue[2] = "ResetAll()"
    /\ command_queue[1] # command_queue[2]
    /\ Len(command_history) = 1
    /\ command_history[1].id = response.command_id

\* C19: when a /trigger stores an entry in a history that already holds
\* max_history_length entries or more, the history afterwards is exactly the
\* last max_history_length entries of the old history with the new entry
\* appended, in that order and with the ids they had.
C19_EvictionKeepsNewest ==
    [][ (/\ Queued(response')
         /\ last_entry' # None
         /\ user_preferences.max_history_length > 0
         /\ Len(command_history) + 1 > user_preferences.max_history_length) =>
            command_history' =
                SubSeq(Append(command_history, last_entry'[1]),
                       Len(command_history) + 2 - user_preferences.max_history_length,
                       Len(command_history) + 1) ]_vars

\* C20: generated output that contains the undo delimiter is split at the
\* first occurrence of the delimiter: the execution code is the text before
\* it and the undo code is all the text after it, also when the delimiter
\* occurs again (each part without the surrounding whitespace); output
\* without the delimiter is the execution code as a whole and the undo code
\* is the fixed placeholder.
C20_SplitAtFirstDelimiter ==
    (response.route = "generate_lua" /\ argument[1] # None) =>
        LET text == CleanCompletion(argument[1][1])
            first == Find(text, UNDO_DELIMITER)
        IN IF first > 0
           THEN /\ response.execution_code = Strip(SubSeq(text, 1, first - 1))
                /\ response.undo_code = Strip(Suffix(text, first + Len(UNDO_DELIMITER)))
           ELSE /\ response.execution_code = text
                /\ response.undo_code = "print(\"Undo not available for this command\")"

\* C21: a /trigger without "prompt", and a /api/repeat, /api/undo or
\* /api/force_undo without "command_id", is answered with a client error
\* (HTTP 400), calls no check, scan or generator, and leaves queue, history
\* and preferences as they are.
C21_MissingFieldIsClientError ==
    [][ (\/ \E completion \in AllCompletions : trigger(None, None, completion)
         \/ repeat_command(None)
         \/ undo_command(None)
         \/ \E completion \in ForceUndoCompletions : force_undo_command(None, completion)) =>
            /\ response'.http = 400
            /\ calls' = {}
            /\ UNCHANGED <<command_queue, command_history, user_preferences>> ]_vars

C21_Witness ==
    /\ response.route \in {"trigger", "force_undo"}
    /\ response.http = 400
    /\ calls = {}
    /\ command_queue # <<>>
    /\ command_history # <<>>

\* C22: the preferences change only in /api/preferences: /trigger (queued or
\* ignored), /poll, repeat, undo, force-undo, clear and the history listing
\* leave all three of them as they are.
C22_PreferencesChangeOnlyByUpdate ==
    [][ response'.route # "preferences" => UNCHANGED user_preferences ]_vars

C22_Witness ==
    /\ response.route = "clear_history"
    /\ ~user_preferences.include_history_in_ai
    /\ ~user_preferences.history_enabled
    /\ user_preferences.max_history_length = 1

\* C30: for a /trigger that queues its code with history enabled, the entry
\* stored for it holds the execution code that went to the queue and the
\* undo code of the same generation: the backend answer
\* "SetTiny()\n---UNDO---\nSetNormal()" gives execution code "SetTiny()",
\* undo code "SetNormal()" and one new blob "SetTiny()" in the queue.
C30_EntryHoldsQueuedCode ==
    [][ (user_preferences.history_enabled /\ Queued(response')) =>
        \A prompt \in AllPrompts, completion \in AllCompletions :
          \A scan \in sanitize_and_scan(prompt[1]) :
            trigger(prompt, scan, completion) =>
                /\ last_entry' # None
                /\ command_history' # <<>>
                /\ command_history'[Len(command_history')] = last_entry'[1]
                /\ command_queue' = Append(command_queue, last_entry'[1].execution_code)
                /\ completion = Some("SetTiny()\n---UNDO---\nSetNormal()") =>
                      /\ last_entry'[1].execution_code = "SetTiny()"
                      /\ last_entry'[1].undo_code = "SetNormal()" ]_vars

C30_Witness ==
    /\ Queued(response)
    /\ last_entry # None
    /\ last_entry[1].execution_code = "SetTiny()"
    /\ last_entry[1].undo_code = "SetNormal()"
    /\ command_history # <<>>
    /\ command_history[Len(command_history)] = last_entry[1]
    /\ Len(command_queue) = 2
    /\ command_queue[2] = "SetTiny()"

\* C23: max_history_length is a positive integer in every reachable state,
\* whatever the bodies sent to /api/preferences carry.
C23_CapIsPositive ==
    /\ user_preferences.max_history_length \in Int
    /\ user_preferences.max_history_length > 0

\* The blobs the handlers can put in the queue.
QueueBlobs ==
    {generate_lua_of[c].execution_code : c \in AllCompletions}
        \cup {generate_lua_of[c].undo_code : c \in AllCompletions}
        \cup {CleanCompletionOf[text] : text \in ForceUndoTexts}

\* Those of them that match a forbidden pattern.
ForbiddenBlobs ==
    {blob \in QueueBlobs :
        \E k \in 1..Len(dangerous_patterns) : re_search(dangerous_patterns[k], blob)}

\* C28: no blob in the queue, whether /trigger, repeat, undo or force-undo
\* put it there, matches one of the forbidden patterns.
C28_NoForbiddenBlobQueued ==
    \A i \in 1..Len(command_queue) : command_queue[i] \notin ForbiddenBlobs

\* C29: when a /trigger answered "queued" with command id c and the entry it
\* stored is still in the history, /api/undo with c puts the undo code of
\* that entry in the queue and /api/repeat with c its execution code,
\* whatever triggers, evictions and clears came before.
C29_ReturnedIdReachesOwnEntry ==
    [][ (/\ Queued(response)
         /\ last_entry # None
         /\ response.command_id # None
         /\ \E i \in 1..Len(command_history) : command_history[i] = last_entry[1]) =>
            /\ undo_command(response.command_id) =>
                  command_queue' = Append(command_queue, last_entry[1].undo_code)
            /\ repeat_command(response.command_id) =>
                  command_queue' = Append(command_queue, last_entry[1].execution_code) ]_vars

\* The user prompts of the last n entries of the history, newest first.
NewestFirst(n) ==
    [k \in 1..n |-> command_history[Len(command_history) + 1 - k].user_prompt]

\* C26: the history digest of a generation request is there only when
\* include_history_in_ai is true and the history is not empty, and then it
\* lists the 5 most recently stored entries (all of them if there are
\* fewer), the most recent first.
C26_DigestNewestFirst ==
    response.route = "history_digest" =>
        IF user_preferences.include_history_in_ai /\ command_history # <<>>
        THEN response.digest =
                Some(NewestFirst(IF Len(command_history) > 5 THEN 5 ELSE Len(command_history)))
        ELSE response.digest = None

\* C24: when /trigger handlers that queue their code run concurrently, no two
\* of them give their entries the same id, and the command id each of them
\* reports is the id of its own entry.
C24_ConcurrentIdsDistinct ==
    /\ \A t1, t2 \in Threads :
          (/\ t1 # t2
           /\ threads[t1].command_entry # None
           /\ threads[t2].command_entry # None) =>
            threads[t1].command_entry[1].id # threads[t2].command_entry[1].id
    /\ \A t \in Threads :
          (threads[t].pc = AcceptedEnd /\ threads[t].command_entry # None) =>
            threads[t].command_id = Some(threads[t].command_entry[1].id)

\* The order of the positions of a handler.
StageEdges ==
    {<<Idle, Received>>, <<Idle, Failed>>,
     <<Received, Gated>>, <<Received, RejectedEnd>>,
     <<Gated, Scanned>>, <<Gated, RejectedEnd>>,
     <<Scanned, Generated>>,
     <<Generated, Checked>>, <<Generated, RejectedEnd>>,
     <<Checked, Enqueued>>,
     <<Enqueued, Built>>, <<Enqueued, Stored>>,
     <<Built, Appended>>, <<Appended, Stored>>,
     <<Stored, AcceptedEnd>>}

\* C25: a /trigger request goes through received, gated, scanned, generated
\* and then accepted or rejected, in this order: the scan is called only for
\* a request the keyword check let pass, the generator only after a scan that
\* did not block, and the queue and the history change only in a handler
\* whose generated code has passed the pattern check.
C25_StagesInOrder ==
    [][ /\ \A t \in Threads :
              /\ threads'[t].pc # threads[t].pc =>
                    <<threads[t].pc, threads'[t].pc>> \in StageEdges
              /\ threads'[t].scan # threads[t].scan =>
                    /\ threads[t].pc = Gated
                    /\ threads[t].user_request[1] \notin DenylistedTexts
              /\ threads'[t].code # threads[t].code =>
                    /\ threads[t].pc = Scanned
                    /\ threads[t].scan # None
                    /\ ~threads[t].scan[1].blocked
        /\ (command_queue' # command_queue \/ command_history' # command_history) =>
              \E t \in Threads :
                  /\ threads'[t] # threads[t]
                  /\ threads[t].pc \in {Checked, Built, Appended}
                  /\ threads[t].code # None
                  /\ threads[t].code[1].execution_code \notin ForbiddenBlobs ]_vars

C25_Witness ==
    \E t1, t2 \in Threads :
        /\ threads[t1].pc = AcceptedEnd
        /\ threads[t1].command_entry # None
        /\ threads[t2].pc = RejectedEnd
        /\ threads[t2].scan # None
        /\ threads[t2].scan[1].blocked
        /\ Len(command_queue) = 1
        /\ Len(command_history) = 1

\* C27: every /trigger request that was taken up reaches an end (the 400
\* answer, "ignored" or "queued"), provided the handler keeps running and the
\* scan and the backend call return or fail; and the scan and the generator
\* are called once per request at most: a failure is not tried again.
C27_RequestsReachAnEnd ==
    /\ \A t \in Threads :
          (threads[t].pc # Idle) ~>
              (threads[t].pc \in {Failed, RejectedEnd, AcceptedEnd})
    /\ [][ \A t \in Threads :
              /\ threads[t].scan # None => threads'[t].scan = threads[t].scan
              /\ threads[t].code # None => threads'[t].code = threads[t].code ]_vars

C27_Witness ==
    \E t1, t2 \in Threads :
        /\ threads[t1].pc = AcceptedEnd
        /\ threads[t1].code[1].execution_code = "print(\"AI Generation Failed\")"
        /\ threads[t2].pc = RejectedEnd
        /\ threads[t2].scan # None
        /\ threads[t2].scan[1].context = ""

\* C33: /api/preferences changes the preferences named in its body, to the
\* values of the body, and nothing else: the preferences the body does not
\* name, the history and the queue stay as they are. A smaller
\* max_history_length or history_enabled = false removes no entry of the
\* history. (The body of such a step names, for each preference, nothing or
\* the value the handler returns for it.)
C33_UpdateChangesOnlyNamedPreferences ==
    [][ response'.route = "preferences" =>
        \A data \in [include_history_in_ai :
                         {None, Some(response'.preferences.include_history_in_ai)},
                     history_enabled :
                         {None, Some(response'.preferences.history_enabled)},
                     max_history_length :
                         {None, Some(response'.preferences.max_history_length)}] :
            update_preferences(data) =>
                /\ \A key \in DOMAIN data :
                      user_preferences'[key] =
                          IF data[key] = None THEN user_preferences[key] ELSE data[key][1]
                /\ response'.preferences = user_preferences'
                /\ UNCHANGED <<command_queue, command_history>> ]_vars

C33_Witness ==
    /\ response.route = "preferences"
    /\ ~user_preferences.history_enabled
    /\ user_preferences.include_history_in_ai
    /\ user_preferences.max_history_length = 1
    /\ Len(command_history) = 2
    /\ command_queue # <<>>

\* C34: /api/clear_history leaves the queue and the preferences as they are,
\* and the blobs that waited in the queue when the history was cleared are
\* delivered by the polls that follow, oldest first.
C34_ClearKeepsQueue ==
    /\ [][ response'.route = "clear_history" =>
              /\ command_history' = <<>>
              /\ UNCHANGED <<command_queue, user_preferences>> ]_vars
    /\ [][ (response.route = "clear_history" /\ response'.route = "poll"
                /\ command_queue # <<>>) =>
              /\ response'.has_code
              /\ response'.code = Head(command_queue)
              /\ command_queue' = Tail(command_queue) ]_vars

C34_Witness ==
    /\ response.route = "clear_history"
    /\ command_history = <<>>
    /\ Len(command_queue) = 2
    /\ command_queue[1] # command_queue[2]
    /\ ~user_preferences.history_enabled
    /\ user_preferences.max_history_length = 2

\* The places of blob in the queue.
QueuePlaces(blob) == {k \in 1..Len(command_queue) : command_queue[k] = blob}

\* C31: when /trigger handlers that queue their code and store their entry
\* run concurrently, the execution codes are in the queue in the order in
\* which their entries are in the history: of two entries with different
\* execution codes, each waiting once in the queue, the one stored first is
\* also the one queued first.
C31_QueueOrderIsLedgerOrder ==
    \A i, j \in 1..Len(command_history) :
        (/\ i < j
         /\ command_history[i].execution_code # command_history[j].execution_code
         /\ Cardinality(QueuePlaces(command_history[i].execution_code)) = 1
         /\ Cardinality(QueuePlaces(command_history[j].execution_code)) = 1) =>
            \A k \in QueuePlaces(command_history[i].execution_code),
               l \in QueuePlaces(command_history[j].execution_code) : k < l

\* The blobs the requests of PollPrompts, FailureCompletions and
\* PollForceCompletions can put in the queue.
PollBlobs ==
    {generate_lua_of[completion].execution_code : completion \in FailureCompletions}
        \cup {generate_lua_of[completion].undo_code : completion \in FailureCompletions}
        \cup {ForceUndoCode(completion)[1] : completion \in PollForceCompletions}

\* r is the response of a poll that returned blob.
Delivered(r, blob) == r.route = "poll" /\ r.has_code /\ r.code = blob

\* C32: with a client that keeps polling, every blob in the queue is
\* returned by a poll in the end: the blob at any place of the queue leads
\* to a poll that returns it (the blobs in the queue are always among
\* PollBlobs); and no blob is dropped on the way, as a step either keeps all
\* waiting blobs at their places or is the poll that returns the oldest one
\* and keeps the others.
C32_QueuedBlobIsPolled ==
    /\ [](\A k \in 1..Len(command_queue) : command_queue[k] \in PollBlobs)
    /\ \A k \in 1..MaxQueue : \A blob \in PollBlobs :
          (Len(command_queue) >= k /\ command_queue[k] = blob)
              ~> Delivered(response, blob)
    /\ [][ \/ /\ Len(command_queue') >= Len(command_queue)
              /\ SubSeq(command_queue', 1, Len(command_queue)) = command_queue
           \/ /\ command_queue # <<>>
              /\ Delivered(response', Head(command_queue))
              /\ command_queue' = Tail(command_queue) ]_vars

C32_Witness ==
    /\ Delivered(response, "SetNormal()")
    /\ command_queue # <<>>
    /\ command_queue[1] = "ResetAll()"

====
